---- MODULE Spec2Model ----
(***************************************************************************)
(* Model of parking_lot's Once (src/src/once.rs): the one-byte status word, *)
(* the fast path of call_once / call_once_force, the state machine of       *)
(* call_once_slow, the panic guard, and the parking queue it uses.          *)
(*                                                                          *)
(* Every atomic access of the status word is one step.  The thread-local    *)
(* tests at the top of the loop of call_once_slow are evaluated in the step *)
(* that obtained the value of `state` they test.                            *)
(*                                                                          *)
(* Memory ordering is modelled with views: view[t] is the set of routine    *)
(* runs whose writes happen-before thread t's current point, msgView is the *)
(* view carried by the release sequence the status word's current value     *)
(* belongs to, and pend[t] is what thread t has read with Relaxed loads and *)
(* a later fence(Acquire) will acquire.                                     *)
(***************************************************************************)
EXTENDS Naturals, FiniteSets

\* ---- bounds of the model
NumThreads == 3
MaxCalls == 4

Threads == 1..NumThreads
RunIds == 1..MaxCalls

\* ---- the status flags (once.rs:20-23)
DONE_BIT == 1
POISON_BIT == 2
LOCKED_BIT == 4
PARKED_BIT == 8

\* state & b != 0
HasBit(s, b) == (s \div b) % 2 = 1
\* state | b
BitOr(s, b) == IF HasBit(s, b) THEN s ELSE s + b
\* state & !b
BitClear(s, b) == IF HasBit(s, b) THEN s - b ELSE s

VARIABLES
    status,         \* Once.0, the atomic status word
    msgView,        \* view released with the status word's current value
    parked,         \* threads asleep in the parking queue of this Once
    pc,             \* where each thread is
    ignore_poison,  \* call_once_slow's argument, per thread
    state,          \* call_once_slow's local `state`, per thread (0 when dead)
    poisoned,       \* the OnceState handed to the running routine, per thread
    run,            \* the number of the routine run a thread is executing
    view,           \* runs whose writes happen-before the thread's point
    pend,           \* views read with Relaxed loads, not yet acquired
    ncalls,         \* calls made so far
    invoked,        \* routine invocations so far
    okRuns,         \* runs that returned normally
    badRuns,        \* runs that panicked
    forcedRuns,     \* runs of routines given to call_once_force
    grantedFrom,    \* the status at the instant of the thread's winning CAS
    lastEnd         \* how the latest finished attempt ended

vars == <<status, msgView, parked, pc, ignore_poison, state,
          poisoned, run, view, pend, ncalls, invoked, okRuns, badRuns,
          forcedRuns, grantedFrom, lastEnd>>

\* the positions of a thread that holds the lock: after its winning
\* compare-exchange and before its releasing swap
Holding == {"run", "done_swap", "guard_swap"}

Init ==
    /\ status = 0
    /\ msgView = {}
    /\ parked = {}
    /\ pc = [t \in Threads |-> "idle"]
    /\ ignore_poison = [t \in Threads |-> FALSE]
    /\ state = [t \in Threads |-> 0]
    /\ poisoned = [t \in Threads |-> FALSE]
    /\ run = [t \in Threads |-> 0]
    /\ view = [t \in Threads |-> {}]
    /\ pend = [t \in Threads |-> {}]
    /\ ncalls = 0
    /\ invoked = 0
    /\ okRuns = {}
    /\ badRuns = {}
    /\ forcedRuns = {}
    /\ grantedFrom = [t \in Threads |-> 0]
    /\ lastEnd = "none"


\* ---- the code's expressions

\* a fast path that tests for any set flag instead of DONE alone
FastPathDone_AnyFlag(s) == s # 0

\* a fast path that compares with the wrong flag
FastPathDone_WrongFlag(s) == s = POISON_BIT

\* `self.0.load(Ordering::Acquire) == DONE_BIT` (once.rs:136, 157)
FastPathDone(s) == s = DONE_BIT

\* a lock-acquiring compare-exchange that forgets to set LOCKED
LockedValue_NoLock(s) == BitClear(s, POISON_BIT)

\* a lock-acquiring compare-exchange that does not clear POISONED
LockedValue_KeepPoison(s) == BitOr(s, LOCKED_BIT)

\* `(state | LOCKED_BIT) & !POISON_BIT` (once.rs:206)
LockedValue(s) == BitClear(BitOr(s, LOCKED_BIT), POISON_BIT)

\* `state | PARKED_BIT` (once.rs:224)
ParkedValue(s) == BitOr(s, PARKED_BIT)

\* a validation that only asks whether the lock is held
Validate_LockedOnly(s) == HasBit(s, LOCKED_BIT)

\* a park without validation
Validate_Always(s) == TRUE

\* `self.0.load(Ordering::Relaxed) == LOCKED_BIT | PARKED_BIT` (once.rs:236)
Validate(s) == s = BitOr(LOCKED_BIT, PARKED_BIT)

\* an OnceState taken from the value written by the compare-exchange
\* instead of the value it replaced
OnceStatePoisoned_NewValue(s) == HasBit(LockedValue(s), POISON_BIT)

\* an OnceState that tests the wrong flag
OnceStatePoisoned_WrongFlag(s) == HasBit(s, DONE_BIT)

\* `OnceState(state & POISON_BIT != 0)` (once.rs:270)
OnceStatePoisoned(s) == HasBit(s, POISON_BIT)

\* a panic guard that sets POISONED without releasing LOCKED
GuardSwapValue_KeepLocked == BitOr(POISON_BIT, LOCKED_BIT)

\* a panic guard that stores what the normal exit stores
GuardSwapValue_Done == DONE_BIT

\* a panic guard that only releases the lock
GuardSwapValue_Unlock == BitClear(LOCKED_BIT, LOCKED_BIT)

\* `once.0.swap(POISON_BIT, Ordering::Release)` (once.rs:257)
GuardSwapValue == POISON_BIT

\* `self.0.swap(DONE_BIT, Ordering::Release)` (once.rs:274)
DoneSwapValue == DONE_BIT

\* an Acquire load or a successful Acquire compare-exchange: the thread's
\* view takes in the view released with the value read
LoadAcquire(v, m) == v \cup m

\* a slow path that returns without its fence
FenceAcquire_None(v, p) == v

\* fence(Ordering::Acquire): the thread's view takes in what its earlier
\* Relaxed loads have read
FenceAcquire(v, p) == v \cup p

\* a swap with Ordering::Release: the value written carries the writer's
\* view (and, being a read-modify-write, the release sequence it extends)
SwapRelease(v, m) == v \cup m

\* a loop that tries for the lock whether or not it is held
LoopTop_NoLockTest(s, ip, sp) ==
    IF HasBit(s, DONE_BIT) THEN "ret"
    ELSE IF HasBit(s, POISON_BIT) /\ ~ip THEN "poison_panic"
    ELSE "cas_lock"

\* a loop that never fails on poison
LoopTop_NoPoisonTest(s, ip, sp) ==
    IF HasBit(s, DONE_BIT) THEN "ret"
    ELSE IF ~HasBit(s, LOCKED_BIT) THEN "cas_lock"
    ELSE IF ~HasBit(s, PARKED_BIT) /\ sp THEN "spin"
    ELSE IF ~HasBit(s, PARKED_BIT) THEN "cas_park"
    ELSE "park"

\* a loop without the test for DONE
LoopTop_NoDoneTest(s, ip, sp) ==
    IF HasBit(s, POISON_BIT) /\ ~ip THEN "poison_panic"
    ELSE IF ~HasBit(s, LOCKED_BIT) THEN "cas_lock"
    ELSE IF ~HasBit(s, PARKED_BIT) /\ sp THEN "spin"
    ELSE IF ~HasBit(s, PARKED_BIT) THEN "cas_park"
    ELSE "park"

\* The top of the loop of call_once_slow (once.rs:184-231): where a thread
\* goes with the value s in `state`, given ignore_poison and the answer sp
\* that spinwait.spin() gives if it is asked.
LoopTop(s, ip, sp) ==
    IF HasBit(s, DONE_BIT) THEN "ret"
    ELSE IF HasBit(s, POISON_BIT) /\ ~ip THEN "poison_panic"
    ELSE IF ~HasBit(s, LOCKED_BIT) THEN "cas_lock"
    ELSE IF ~HasBit(s, PARKED_BIT) /\ sp THEN "spin"
    ELSE IF ~HasBit(s, PARKED_BIT) THEN "cas_park"
    ELSE "park"

\* Thread t is at the top of the loop with s in `state` and p read so far
\* with Relaxed loads.  SpinWait::spin is the adaptive helper of
\* parking_lot_core: it answers true a bounded number of times, and the model
\* lets it answer either way.  The two exits of the loop that leave the call
\* (once.rs:186-198) execute fence(Ordering::Acquire).  `state` is kept
\* where the code reads it again, as the expected value of a
\* compare-exchange; everywhere else the next use is a fresh load.
Continue(t, s, p) ==
    \E sp \in BOOLEAN :
        LET next == LoopTop(s, ignore_poison[t], sp)
            leaves == next \in {"ret", "poison_panic"}
        IN  /\ pc' = [pc EXCEPT ![t] = next]
            /\ state' = [state EXCEPT ![t] =
                            IF next \in {"cas_lock", "cas_park"} THEN s ELSE 0]
            /\ view' = [view EXCEPT ![t] = IF leaves THEN FenceAcquire(@, p) ELSE @]
            /\ pend' = [pend EXCEPT ![t] = IF leaves THEN {} ELSE p]

\* ---- the public entry points (once.rs:133-166)

Enter(t, ip) ==
    /\ pc[t] = "idle"
    /\ ncalls < MaxCalls
    /\ ncalls' = ncalls + 1
    /\ ignore_poison' = [ignore_poison EXCEPT ![t] = ip]
    /\ view' = [view EXCEPT ![t] = LoadAcquire(@, msgView)]
    /\ pc' = [pc EXCEPT ![t] = IF FastPathDone(status) THEN "ret" ELSE "slow"]
    /\ UNCHANGED <<status, msgView, parked, state, poisoned, run,
                   pend, invoked, okRuns, badRuns, forcedRuns, grantedFrom, lastEnd>>

call_once(t) == Enter(t, FALSE)

call_once_force(t) == Enter(t, TRUE)

\* ---- call_once_slow (once.rs:181-281)

\* `let mut spinwait = SpinWait::new(); let mut state = load(Relaxed)`
SlowLoad(t) ==
    /\ pc[t] = "slow"
    /\ Continue(t, status, pend[t] \cup msgView)
    /\ UNCHANGED <<status, msgView, parked, ignore_poison, poisoned, run,
                   ncalls, invoked, okRuns, badRuns, forcedRuns, grantedFrom, lastEnd>>

\* compare_exchange_weak(state, (state | LOCKED_BIT) & !POISON_BIT, Acquire,
\* Relaxed) (once.rs:203-213).  A weak compare-exchange may fail although the
\* value matches.  On success the loop is left and the routine is called.
CasLock(t) ==
    /\ pc[t] = "cas_lock"
    /\ \E ok \in BOOLEAN :
         IF ok /\ status = state[t]
         THEN /\ status' = LockedValue(state[t])
              /\ view' = [view EXCEPT ![t] = LoadAcquire(@, msgView)]
              /\ pc' = [pc EXCEPT ![t] = "run"]
              /\ poisoned' = [poisoned EXCEPT ![t] = OnceStatePoisoned(state[t])]
              /\ grantedFrom' = [grantedFrom EXCEPT ![t] = status]
              /\ invoked' = invoked + 1
              /\ run' = [run EXCEPT ![t] = invoked + 1]
              /\ forcedRuns' = IF ignore_poison[t]
                               THEN forcedRuns \cup {invoked + 1} ELSE forcedRuns
              /\ state' = [state EXCEPT ![t] = 0]
              /\ UNCHANGED <<msgView, pend>>
         ELSE /\ Continue(t, status, pend[t] \cup msgView)
              /\ UNCHANGED <<status, msgView, poisoned, grantedFrom, invoked, run,
                             forcedRuns>>
    /\ UNCHANGED <<parked, ignore_poison, ncalls, okRuns, badRuns, lastEnd>>

\* `spinwait.spin()` answered true: `state = load(Relaxed); continue`
\* (once.rs:216-219)
Spin(t) ==
    /\ pc[t] = "spin"
    /\ Continue(t, status, pend[t] \cup msgView)
    /\ UNCHANGED <<status, msgView, parked, ignore_poison, poisoned, run,
                   ncalls, invoked, okRuns, badRuns, forcedRuns, grantedFrom, lastEnd>>

\* compare_exchange_weak(state, state | PARKED_BIT, Relaxed, Relaxed)
\* (once.rs:222-230)
CasPark(t) ==
    /\ pc[t] = "cas_park"
    /\ \E ok \in BOOLEAN :
         IF ok /\ status = state[t]
         THEN /\ status' = ParkedValue(state[t])
              /\ pc' = [pc EXCEPT ![t] = "park"]
              /\ state' = [state EXCEPT ![t] = 0]
              /\ UNCHANGED <<view, pend>>
         ELSE /\ Continue(t, status, pend[t] \cup msgView)
              /\ UNCHANGED status
    /\ UNCHANGED <<msgView, parked, ignore_poison, poisoned, run, ncalls,
                   invoked, okRuns, badRuns, forcedRuns, grantedFrom, lastEnd>>

\* parking_lot_core::park (once.rs:234-245): with the queue locked, the
\* thread is queued and sleeps if validate() holds, and returns at once if not
Park(t) ==
    /\ pc[t] = "park"
    /\ IF Validate(status)
       THEN /\ parked' = parked \cup {t}
            /\ pc' = [pc EXCEPT ![t] = "asleep"]
       ELSE /\ pc' = [pc EXCEPT ![t] = "woke"]
            /\ UNCHANGED parked
    /\ UNCHANGED <<status, msgView, ignore_poison, state, poisoned,
                   run, view, pend, ncalls, invoked, okRuns, badRuns,
                   forcedRuns, grantedFrom, lastEnd>>

\* back from park: `spinwait.reset(); state = load(Relaxed)` (once.rs:247-249)
Reload(t) ==
    /\ pc[t] = "woke"
    /\ Continue(t, status, pend[t] \cup msgView)
    /\ UNCHANGED <<status, msgView, parked, ignore_poison, poisoned, run,
                   ncalls, invoked, okRuns, badRuns, forcedRuns, grantedFrom, lastEnd>>

\* the routine called at once.rs:270 returns
RoutineReturns(t) ==
    /\ pc[t] = "run"
    /\ pc' = [pc EXCEPT ![t] = "done_swap"]
    /\ okRuns' = okRuns \cup {run[t]}
    /\ view' = [view EXCEPT ![t] = @ \cup {run[t]}]
    /\ lastEnd' = "ok"
    /\ UNCHANGED <<status, msgView, parked, ignore_poison, state,
                   poisoned, run, pend, ncalls, invoked, badRuns, forcedRuns, grantedFrom>>

\* the routine called at once.rs:270 panics: the guard is dropped
RoutinePanics(t) ==
    /\ pc[t] = "run"
    /\ pc' = [pc EXCEPT ![t] = "guard_swap"]
    /\ badRuns' = badRuns \cup {run[t]}
    /\ lastEnd' = "panic"
    /\ UNCHANGED <<status, msgView, parked, ignore_poison, state,
                   poisoned, run, view, pend, ncalls, invoked, okRuns,
                   forcedRuns, grantedFrom>>

\* the end of an attempt: the lock is released by a swap of the whole word
Release(t, value, unpark, over) ==
    /\ status' = value
    /\ msgView' = SwapRelease(view[t], msgView)
    /\ pc' = [pc EXCEPT ![t] = IF HasBit(status, PARKED_BIT) THEN unpark ELSE over]
    /\ poisoned' = [poisoned EXCEPT ![t] = FALSE]
    /\ run' = [run EXCEPT ![t] = 0]
    /\ grantedFrom' = [grantedFrom EXCEPT ![t] = 0]
    /\ UNCHANGED <<parked, ignore_poison, state, view, pend, ncalls,
                   invoked, okRuns, badRuns, forcedRuns, lastEnd>>

\* `let state = self.0.swap(DONE_BIT, Release)` (once.rs:271-275)
DoneSwap(t) ==
    /\ pc[t] = "done_swap"
    /\ Release(t, DoneSwapValue, "done_unpark", "ret")

\* PanicGuard::drop: `once.0.swap(POISON_BIT, Release)` (once.rs:254-258)
GuardSwap(t) ==
    /\ pc[t] = "guard_swap"
    /\ Release(t, GuardSwapValue, "guard_unpark", "routine_panic")

\* parking_lot_core::unpark_all: every thread in the queue is woken
UnparkAll(t, over) ==
    /\ parked' = {}
    /\ pc' = [u \in Threads |->
                IF u = t THEN over ELSE IF u \in parked THEN "woke" ELSE pc[u]]
    /\ UNCHANGED <<status, msgView, ignore_poison, state, poisoned,
                   run, view, pend, ncalls, invoked, okRuns, badRuns,
                   forcedRuns, grantedFrom, lastEnd>>

\* once.rs:275-280
DoneUnpark(t) ==
    /\ pc[t] = "done_unpark"
    /\ UnparkAll(t, "ret")

\* once.rs:258-263; the panic then goes on to the caller
GuardUnpark(t) ==
    /\ pc[t] = "guard_unpark"
    /\ UnparkAll(t, "routine_panic")

\* the caller goes on after the call returned or unwound (once.rs:303-306,
\* 351-360)
Finish(t) ==
    /\ pc[t] \in {"ret", "poison_panic", "routine_panic"}
    /\ pc' = [pc EXCEPT ![t] = "idle"]
    /\ ignore_poison' = [ignore_poison EXCEPT ![t] = FALSE]
    /\ UNCHANGED <<status, msgView, parked, state, poisoned, run, view, pend,
                   ncalls, invoked, okRuns, badRuns, forcedRuns, grantedFrom, lastEnd>>

Next ==
    \E t \in Threads :
        \/ call_once(t)
        \/ call_once_force(t)
        \/ SlowLoad(t)
        \/ CasLock(t)
        \/ Spin(t)
        \/ CasPark(t)
        \/ Park(t)
        \/ Reload(t)
        \/ RoutineReturns(t)
        \/ RoutinePanics(t)
        \/ DoneSwap(t)
        \/ GuardSwap(t)
        \/ DoneUnpark(t)
        \/ GuardUnpark(t)
        \/ Finish(t)

Spec == Init /\ [][Next]_vars

\* The steps of thread t inside a call.
InCall(t) ==
    \/ SlowLoad(t)
    \/ CasLock(t)
    \/ Spin(t)
    \/ CasPark(t)
    \/ Park(t)
    \/ Reload(t)
    \/ RoutineReturns(t)
    \/ RoutinePanics(t)
    \/ DoneSwap(t)
    \/ GuardSwap(t)
    \/ DoneUnpark(t)
    \/ GuardUnpark(t)

\* Threads are scheduled fairly and every routine ends: a thread inside a
\* call that can move does move.  A step that changes nothing (a spurious
\* failure of compare_exchange_weak, one more round of spinning) is no move,
\* so neither goes on for ever.  Nothing obliges a caller to call.
FairSpec == Spec /\ \A t \in Threads : WF_vars(InCall(t))

\* ---- the claims

\* C1: at most one routine invocation ever completes normally; if no routine
\* has panicked at most one routine has been invoked at all, and exactly one
\* once some call has returned.
C1_AtMostOneCompletes ==
    /\ Cardinality(okRuns) <= 1
    /\ badRuns = {} => invoked <= 1
    /\ badRuns = {} /\ (\E t \in Threads : pc[t] = "ret") => invoked = 1

\* three racing calls have returned and one routine was run
C1_Witness ==
    /\ \A t \in Threads : pc[t] = "ret"
    /\ invoked = 1
    /\ Cardinality(okRuns) = 1

\* C2: mutual exclusion: at most one thread is between its winning
\* compare-exchange and its releasing swap.
C2_MutualExclusion ==
    Cardinality({t \in Threads : pc[t] \in Holding}) <= 1

\* a forcing thread runs its routine while a call_once caller sleeps and a
\* third caller is at its compare-exchange
C2_Witness ==
    \E t, u, w \in Threads :
        /\ pc[t] = "run" /\ ignore_poison[t]
        /\ pc[u] = "asleep" /\ ~ignore_poison[u]
        /\ pc[w] = "cas_lock"

\* C3: when a call has returned normally DONE is set, some routine has
\* completed normally and no thread is running a routine or holds the lock.
C3_ReturnMeansDone ==
    \A t \in Threads :
        pc[t] = "ret" =>
            /\ HasBit(status, DONE_BIT)
            /\ okRuns # {}
            /\ \A u \in Threads : pc[u] \notin Holding

\* a forcing call and a call_once have both returned, after a panic
C3_Witness ==
    \E t, u \in Threads :
        /\ pc[t] = "ret" /\ ignore_poison[t]
        /\ pc[u] = "ret" /\ ~ignore_poison[u]
        /\ badRuns # {}

\* C4: happens-before: the writes of the routine that completed normally
\* are in the view of every thread whose call has returned.
C4_HappensBefore ==
    \A t \in Threads : pc[t] = "ret" => okRuns \subseteq view[t]

\* a thread has returned while the thread that ran the routine is still
\* about to wake the sleepers
C4_Witness ==
    \E t, u \in Threads :
        /\ pc[t] = "ret"
        /\ pc[u] = "done_unpark"
        /\ okRuns # {}
        /\ okRuns \subseteq view[t]

\* C5 as stated: once a routine has completed normally, every call that
\* begins afterwards returns through the fast path.
C5_Original ==
    [][\A t \in Threads :
          okRuns # {} /\ pc[t] = "idle" /\ pc'[t] # "idle" => pc'[t] = "ret"]_vars

\* C5 amended: once a routine has completed normally and the releasing swap
\* of its thread has set DONE, every call that begins afterwards returns at
\* once: no routine is invoked, the caller neither spins nor parks, and the
\* status word is not written.
C5_IdempotentSuccess ==
    [][\A t \in Threads :
          HasBit(status, DONE_BIT) /\ pc[t] = "idle" /\ pc'[t] # "idle" =>
              /\ pc'[t] = "ret"
              /\ status' = status
              /\ invoked' = invoked
              /\ parked' = parked]_vars

\* every thread has returned and more calls were made than there are
\* threads, so some thread has called again after the success
C5_Witness ==
    /\ \A t \in Threads : pc[t] = "ret"
    /\ ncalls > NumThreads
    /\ invoked = 1
    /\ status = DONE_BIT

\* C6: the step of a thread whose routine panicked leaves the status word
\* exactly POISONED, and that thread's call ends in the routine's panic: from
\* the guard's swap it goes nowhere but to unpark_all and on to the panic.
C6_PanicPoisons ==
    /\ [](\A t \in Threads : run[t] \in badRuns => pc[t] = "guard_swap")
    /\ [][\A t \in Threads :
            /\ pc[t] = "guard_swap" /\ pc'[t] # "guard_swap" =>
                  /\ status' = POISON_BIT
                  /\ pc'[t] \in {"guard_unpark", "routine_panic"}
            /\ pc[t] = "guard_unpark" /\ pc'[t] # "guard_unpark" =>
                  /\ status' = status
                  /\ pc'[t] = "routine_panic"
            /\ pc[t] = "routine_panic" /\ pc'[t] # "routine_panic" =>
                  pc'[t] = "idle"]_vars

\* the guard has swapped POISONED in while a waiter sleeps: PARKED and LOCKED
\* are gone and the panicking thread is about to wake the sleeper
C6_Witness ==
    \E t, u \in Threads :
        /\ pc[t] = "guard_unpark"
        /\ pc[u] = "asleep"
        /\ status = POISON_BIT

\* C7: after a routine has panicked, a call_once never runs its routine,
\* never goes on with a poisoned value in `state` (it fails instead), and has
\* returned normally only if some routine has completed normally since.
C7_PoisonPropagates ==
    \A t \in Threads :
        ~ignore_poison[t] /\ badRuns # {} =>
            /\ pc[t] # "run"
            /\ pc[t] = "ret" => okRuns # {}
            /\ pc[t] \in {"cas_lock", "cas_park"} => ~HasBit(state[t], POISON_BIT)

\* the routine of one call_once has panicked and two other call_once
\* callers have failed on the poison
C7_Witness ==
    \E t, u, w \in Threads :
        /\ u # w
        /\ pc[t] = "routine_panic" /\ ~ignore_poison[t]
        /\ pc[u] = "poison_panic"
        /\ pc[w] = "poison_panic"
        /\ okRuns = {}

C9_ForcedRecovery ==
    /\ [](\A t \in Threads :
            /\ ignore_poison[t] => pc[t] # "poison_panic"
            /\ ignore_poison[t] /\ HasBit(state[t], POISON_BIT)
                  => pc[t] = "cas_lock"
            /\ pc[t] \in Holding /\ grantedFrom[t] = POISON_BIT => poisoned[t])
    /\ [][\A t \in Threads :
            /\ pc[t] = "done_swap" /\ pc'[t] # "done_swap" =>
                  status' = DONE_BIT
            /\ status = DONE_BIT /\ badRuns # {} =>
                  /\ status' = DONE_BIT
                  /\ badRuns' = badRuns
                  /\ pc[t] = "idle" /\ pc'[t] # "idle" => pc'[t] = "ret"]_vars

\* a forced routine told poisoned() = true has returned normally, the status
\* is DONE and a call_once has returned
C9_Witness ==
    \E t, u \in Threads :
        /\ status = DONE_BIT
        /\ badRuns # {}
        /\ pc[t] = "done_unpark" /\ ignore_poison[t]
        /\ pc[u] = "ret" /\ ~ignore_poison[u]

\* C10: the routine is told poisoned() = true exactly if POISONED was set in
\* the status at the instant of its thread's winning compare-exchange, which
\* is exactly if the attempt before it ended in a panic; the first attempt
\* granted on a fresh Once is told false.
C10_OnceStateSnapshot ==
    \A t \in Threads :
        pc[t] = "run" =>
            /\ poisoned[t] <=> HasBit(grantedFrom[t], POISON_BIT)
            /\ poisoned[t] <=> lastEnd = "panic"
            /\ run[t] = 1 => ~poisoned[t]

\* a second forced attempt runs after two panics, told poisoned() = true,
\* while another thread sleeps
C10_Witness ==
    \E t, u \in Threads :
        /\ pc[t] = "run" /\ poisoned[t] /\ run[t] = 3
        /\ pc[u] = "asleep"

\* C11: once a routine has panicked, every routine that runs afterwards is
\* told poisoned() = true, also after forced attempts that cleared POISONED
\* on taking the lock and then panicked themselves.
C11_PoisonedForEver ==
    \A t \in Threads : pc[t] = "run" /\ badRuns # {} => poisoned[t]

\* a forced routine runs, told poisoned() = true, after a call_once routine
\* and a forced routine have both panicked
C11_Witness ==
    \E t \in Threads :
        /\ pc[t] = "run" /\ ignore_poison[t] /\ poisoned[t]
        /\ badRuns \ forcedRuns # {}
        /\ badRuns \cap forcedRuns # {}

\* C12: while the lock is held a caller in the loop neither fails on an
\* earlier poison nor goes for the lock: it spins, sets PARKED or parks; no
\* routine is invoked while a thread holds the lock; and once the attempt in
\* flight has completed normally a waiting caller's next step out of the
\* loop is a normal return, with no further routine invoked.
C12_WaitsForAttempt ==
    [][\A t \in Threads :
          /\ HasBit(status, LOCKED_BIT) /\ HasBit(status', LOCKED_BIT)
             /\ pc[t] \in {"slow", "cas_lock", "spin", "cas_park", "woke"}
             /\ pc'[t] # pc[t]
                => pc'[t] \in {"spin", "cas_park", "park"}
          /\ (\E u \in Threads : pc[u] \in Holding) => invoked' = invoked
          /\ HasBit(status, DONE_BIT)
             /\ pc[t] \in {"slow", "cas_lock", "spin", "cas_park", "park", "woke"}
             /\ pc'[t] # pc[t]
                => /\ pc'[t] = (IF pc[t] = "park" THEN "woke" ELSE "ret")
                   /\ invoked' = invoked]_vars

\* a call_once sleeps while a forced attempt on a poisoned Once is running
C12_Witness ==
    \E t, u \in Threads :
        /\ pc[t] = "run" /\ ignore_poison[t] /\ poisoned[t]
        /\ pc[u] = "asleep" /\ ~ignore_poison[u]

\* C13: no lost wakeups: a thread asleep in the queue is always woken.
C13_NoLostWakeup ==
    \A t \in Threads : (pc[t] = "asleep") ~> (pc[t] # "asleep")

\* two threads sleep while the thread that completed the routine has
\* swapped DONE in and is about to call unpark_all
C13_Witness ==
    \E t, u, w \in Threads :
        /\ t # u
        /\ pc[t] = "asleep" /\ pc[u] = "asleep"
        /\ pc[w] = "done_unpark"

\* C14: termination: every call that has begun ends, in a normal return or
\* in a panic.
C14_Termination ==
    \A t \in Threads :
        (pc[t] \notin {"idle", "ret", "poison_panic", "routine_panic"})
            ~> (pc[t] \in {"ret", "poison_panic", "routine_panic"})

\* three calls have ended in the three ways a call can end
C14_Witness ==
    \E t, u, w \in Threads :
        /\ pc[t] = "routine_panic"
        /\ pc[u] = "poison_panic"
        /\ pc[w] = "ret"

\* C15: no step takes the status from a value with DONE to a value
\* without it.
C15_DoneForEver ==
    [][HasBit(status, DONE_BIT) => HasBit(status', DONE_BIT)]_vars

\* DONE is set while one thread is still at its lock-acquiring
\* compare-exchange and another at its PARKED compare-exchange, both with a
\* value of `state` read earlier
C15_Witness ==
    \E t, u \in Threads :
        /\ HasBit(status, DONE_BIT)
        /\ pc[t] = "cas_lock"
        /\ pc[u] = "cas_park"

\* C16: POISONED is set only by the panic guard's swap, by a thread that
\* holds LOCKED, and cleared only by a winning lock-acquiring
\* compare-exchange.
C16_PoisonSetAndCleared ==
    [][/\ ~HasBit(status, POISON_BIT) /\ HasBit(status', POISON_BIT) =>
            /\ HasBit(status, LOCKED_BIT)
            /\ \E t \in Threads :
                  /\ pc[t] = "guard_swap"
                  /\ pc'[t] \in {"guard_unpark", "routine_panic"}
       /\ HasBit(status, POISON_BIT) /\ ~HasBit(status', POISON_BIT) =>
            \E t \in Threads : pc[t] = "cas_lock" /\ pc'[t] = "run"]_vars

\* a forced attempt has cleared POISONED on taking the lock, a waiter has
\* set PARKED since, and a call_once has failed on the poison before
C16_Witness ==
    \E t, u \in Threads :
        /\ pc[t] \in Holding /\ grantedFrom[t] = POISON_BIT
        /\ status = BitOr(LOCKED_BIT, PARKED_BIT)
        /\ pc[u] = "poison_panic"

\* C17 as the specification states it: a call_once that fails with the
\* poisoned-primitive failure has written nothing and has not called park.
\* A thread is at "woke" only when the call it is in has called park, so a
\* call that fails has not come to its failing load from there; and the
\* failing step itself changes neither the status word nor the queue and
\* runs no routine.
C17_Original ==
    [][\A t \in Threads :
          pc'[t] = "poison_panic" /\ pc[t] # "poison_panic"
          => /\ pc[t] # "woke"
             /\ status' = status
             /\ parked' = parked
             /\ invoked' = invoked]_vars

\* C17 (amended): the step by which a call_once fails finds the status word
\* equal to POISONED alone and leaves it so, leaves the queue alone, wakes
\* nobody and runs no routine; so the poison is there for the next caller.
\* (The call may have set PARKED and parked before, when it found the lock
\* held; the releasing swap has overwritten that by the time it fails.)
C17_FailureLeavesPoison ==
    [][\A t \in Threads :
          pc'[t] = "poison_panic" /\ pc[t] # "poison_panic"
          => /\ ~ignore_poison[t]
             /\ status = POISON_BIT
             /\ status' = status
             /\ parked' = parked
             /\ invoked' = invoked
             /\ \A u \in Threads \ {t} : pc'[u] = pc[u]]_vars

\* Two call_once calls slept while a routine ran; the routine panicked and
\* woke them; one has failed and the other is about to load POISONED.
C17_Witness ==
    \E t \in Threads : \E u \in Threads :
        /\ pc[t] = "poison_panic"
        /\ pc[u] = "woke"
        /\ ~ignore_poison[u]
        /\ status = POISON_BIT
        /\ parked = {}

\* C18: the status word is always one of 0, LOCKED, LOCKED|PARKED, POISONED,
\* DONE; so the fast-path test and the validation of park say the same as
\* tests of the single flags.
C18_FiveValues ==
    /\ status \in {0, LOCKED_BIT, BitOr(LOCKED_BIT, PARKED_BIT), POISON_BIT, DONE_BIT}
    /\ ~(HasBit(status, DONE_BIT) /\ HasBit(status, LOCKED_BIT))
    /\ ~(HasBit(status, POISON_BIT) /\ HasBit(status, LOCKED_BIT))
    /\ (HasBit(status, PARKED_BIT) => HasBit(status, LOCKED_BIT))
    /\ (FastPathDone(status) <=> HasBit(status, DONE_BIT))
    /\ (Validate(status) <=> HasBit(status, PARKED_BIT))

\* A forced routine that took the lock from POISONED has panicked and its
\* guard has stored POISONED again over LOCKED|PARKED, with sleepers to wake.
C18_Witness ==
    \E t \in Threads :
        /\ pc[t] = "guard_unpark"
        /\ ignore_poison[t]
        /\ status = POISON_BIT
        /\ parked # {}
        /\ okRuns = {}
        /\ badRuns \ forcedRuns # {}

\* C19: a routine of call_once runs only when its thread took the lock from
\* status 0; after a routine has panicked every later routine is one of
\* call_once_force.
C19_CallOnceRunsFresh ==
    /\ \A t \in Threads :
          pc[t] \in Holding /\ ~ignore_poison[t]
          => grantedFrom[t] = 0 /\ ~poisoned[t] /\ badRuns \ {run[t]} = {}
    /\ \A r \in 1..invoked : \A b \in badRuns : b < r => r \in forcedRuns

\* A call_once routine panicked, a call_once call has failed on the poison,
\* and a forced routine that took the lock from POISONED has returned.
C19_Witness ==
    \E t \in Threads : \E u \in Threads :
        /\ pc[t] = "done_swap"
        /\ ignore_poison[t]
        /\ grantedFrom[t] = POISON_BIT
        /\ badRuns \ forcedRuns # {}
        /\ pc[u] = "poison_panic"

\* C20: whenever a thread sleeps in the queue, either the status is
\* LOCKED|PARKED or a thread whose releasing swap saw PARKED has yet to call
\* unpark_all; and a thread goes to sleep only at a step where the status is
\* LOCKED|PARKED.
C20_WakeupInvariant ==
    /\ [](/\ parked = {t \in Threads : pc[t] = "asleep"}
          /\ (parked # {}
              => \/ status = BitOr(LOCKED_BIT, PARKED_BIT)
                 \/ \E t \in Threads : pc[t] \in {"done_unpark", "guard_unpark"}))
    /\ [][\A t \in Threads :
            pc'[t] = "asleep" /\ pc[t] # "asleep"
            => status = BitOr(LOCKED_BIT, PARKED_BIT)]_vars

\* One thread sleeps, the holder's guard has stored POISONED and is about to
\* call unpark_all, and a third thread is about to call park and not sleep.
C20_Witness ==
    \E t \in Threads : \E u \in Threads : \E w \in Threads :
        /\ pc[t] = "asleep"
        /\ pc[u] = "guard_unpark"
        /\ pc[w] = "park"
        /\ status = POISON_BIT

====
